---- MODULE Spec2Model ----
(***************************************************************************)
(* A model of laralove143/message_bender: the per-channel webhook cache    *)
(* (src/src/webhooks.rs), the interaction pipeline (src/src/interaction.rs)*)
(* and the message replication of the edit handler                         *)
(* (src/src/interaction/edit.rs), run as one task per gateway event        *)
(* (src/src/main.rs).                                                      *)
(*                                                                         *)
(* Every `.await` on a remote call is one step of a task; the remote side  *)
(* is free to answer any call with success or with an error.  The message  *)
(* cache is read, never written, by the handlers: the history a session    *)
(* sees is fixed for the run.  modal_submit gets its webhook from          *)
(* webhooks_cache.get_infallible(http, channel_id, name); its steps are    *)
(* those of Context::webhook: lookup, listing, creation, insert, lookup.   *)
(*                                                                         *)
(* Five specifications share the variables:                                *)
(*   Spec       one task per interaction event, the cache cold;            *)
(*   SpecCache  direct callers of webhook() and webhooks_cache_update(),   *)
(*              and a third party deleting webhooks;                       *)
(*   SpecWeird  message_is_weird and cached_message_is_weird applied to    *)
(*              one message;                                               *)
(*   SpecHeal   form submissions in a channel whose webhook is cached,     *)
(*              and a third party deleting webhooks;                       *)
(*   SpecPair   form submissions of the same channel running side by side. *)
(***************************************************************************)
EXTENDS Integers, Sequences, FiniteSets, TLC

\* ------------------------------------------------------------------------
\* Bounds
\* ------------------------------------------------------------------------
\* tasks calling the webhook cache directly (SpecCache)
NumCallers == 3
\* channels known to the webhook cache
NumChannels == 1
\* webhooks a third party deletes remotely during a run
MaxRemoteDeletes == 1

\* interaction sessions in flight (Spec)
NumSessions == 1
\* messages in the cached history of the interaction's channel
MaxHist == 3
\* form submissions of one channel in flight together (SpecPair)
NumSubmitters == 2

\* the longest content a message may have (edit.rs, the length check)
MaxContentLen == 2000

Callers == 1..NumCallers
Sessions == 1..NumSessions
Channels == 1..NumChannels

\* "no webhook" / "no id"
None == 0

VARIABLES
    \* Context.webhooks_cache: channel id -> id of the cached webhook, or None
    webhooks_cache,
    \* the platform's webhooks of each channel, in listing order
    remote_webhooks,
    \* per channel, the number of create_webhook calls that succeeded
    created,
    \* number of webhooks deleted remotely by a third party so far
    remote_deletes,
    \* per task: position in the code
    pc,
    \* per task: what the task runs ("acquire", "update", or an interaction kind)
    kind,
    \* per task: the channel_id argument of webhook() / webhooks_cache_update()
    chan,
    \* per task: whether the cache lookup of webhook() found no entry
    missed,
    \* per task: the local `webhook` of webhook(), a remote webhook record
    webhook,
    \* per task: the webhook id webhook() returned, or None
    result,
    \* per task: the error the running function returned ("none" when Ok)
    err,
    \* per task: the tasks whose call had already returned when this one began
    before,
    \* per task: the remote calls issued, in order
    calls,
    \* per session: handle() has matched the interaction to a handler
    dispatched,
    \* per session: the `thread_id` of modal_submit, or None
    thread_id,
    \* per session: the id of the message to edit
    edit_message_id,
    \* per session: the `messages` of modal_submit, the messages to re-post
    messages,
    \* per session: the index of the re-post loop in `messages`
    idx,
    \* per session: the `reply` of modal_submit
    reply,
    \* per session: where handle_error has left a trace of the error
    sinks,
    \* the channel the interactions come from (channel_id of the interaction)
    ichannel,
    \* InMemoryCache: the cached messages of that channel, newest first
    history,
    \* the message handed to the two eligibility checks (SpecWeird)
    probe,
    \* what message_is_weird and cached_message_is_weird said of it, once
    \* they have been asked
    verdict,
    \* per session: the error handle() got from the handler ("none" before)
    handler_err,
    \* per session: the member's permissions in the interaction include
    \* MANAGE_MESSAGES
    member_can_manage,
    \* per session: the number of characters of the submitted text
    \* (input.value), None before modal_submit has taken the input
    input_len

cacheVars == <<webhooks_cache, remote_webhooks, created, remote_deletes>>
taskVars == <<pc, kind, chan, missed, webhook, result, err, before, calls>>
sessVars == <<dispatched, thread_id, edit_message_id, messages, idx, reply, sinks>>
envVars == <<ichannel, history>>
weirdVars == <<probe, verdict>>
dataVars == <<weirdVars, handler_err, member_can_manage, input_len>>
vars == <<cacheVars, taskVars, sessVars, envVars, dataVars>>

\* ------------------------------------------------------------------------
\* Remote webhooks
\* ------------------------------------------------------------------------
\* A webhook as the platform lists it: `own` is application_id ==
\* Some(self.application_id), `token` is webhook.token.is_some().
Webhook(id, own, token) == [id |-> id, own |-> own, token |-> token]

NoWebhook == Webhook(None, FALSE, FALSE)

ForeignId(c) == 10 * c + 1
OwnId(c) == 10 * c + 2
\* the id the platform gives to the n-th webhook this agent creates in c
CreatedId(c, n) == 10 * c + 2 + n

\* what a channel may hold before the agent first looks at it
RemoteInit(c) ==
    { <<>>,
      <<Webhook(ForeignId(c), FALSE, TRUE)>>,
      <<Webhook(OwnId(c), TRUE, TRUE)>>,
      <<Webhook(ForeignId(c), FALSE, TRUE), Webhook(OwnId(c), TRUE, TRUE)>>,
      <<Webhook(OwnId(c), TRUE, FALSE)>> }

\* the bug of not recognising a webhook of this application in the listing
FindOwn_Blind(list) == NoWebhook

\* .into_iter().find(|webhook| webhook.application_id == Some(self.application_id))
RECURSIVE FindOwn(_)
FindOwn(list) ==
    IF list = <<>> THEN NoWebhook
    ELSE IF Head(list).own THEN Head(list)
    ELSE FindOwn(Tail(list))

\* .iter().any(|webhook| webhook.application_id == Some(self.application_id))
AnyOwn(list) == \E i \in 1..Len(list) : list[i].own

\* the platform still has webhook `id` in channel c
Exists(c, id) == \E i \in 1..Len(remote_webhooks[c]) : remote_webhooks[c][i].id = id

RemoveAt(list, i) == SubSeq(list, 1, i - 1) \o SubSeq(list, i + 1, Len(list))

\* the two checks have not been asked
NoVerdict == [asked |-> FALSE, command |-> FALSE, cached |-> FALSE]

\* one remote call in a task's log
Call(op, arg, id, ids, ok) ==
    [op |-> op, arg |-> arg, id |-> id, ids |-> ids, ok |-> ok]

Log(t, call) == calls' = [calls EXCEPT ![t] = Append(@, call)]

Tasks == DOMAIN pc

\* the tasks that are not inside a call
Returned == {u \in Tasks : pc[u] = "done"}

\* ------------------------------------------------------------------------
\* Context::webhook  (src/src/webhooks.rs)
\* ------------------------------------------------------------------------
\* where a task continues once webhook() has returned
AfterWebhook(t) == IF kind[t] = "modal" THEN "parse_id" ELSE "done"

\* where a task continues once webhook() has failed
WebhookFailed(t) == IF kind[t] = "modal" THEN "handle_err" ELSE "done"

\* a caller enters webhook(channel_id)
StartWebhook(t, c) ==
    /\ pc[t] = "idle"
    /\ kind[t] = "acquire"
    /\ pc' = [pc EXCEPT ![t] = "webhook_get"]
    /\ chan' = [chan EXCEPT ![t] = c]
    /\ before' = [before EXCEPT ![t] = Returned]
    /\ UNCHANGED <<cacheVars, kind, missed, webhook, result, err, calls>>
    /\ UNCHANGED <<sessVars, envVars, dataVars>>

\* the bug of going to the platform whatever the cache holds
WebhookGet_AlwaysMiss(t) ==
    /\ pc[t] = "webhook_get"
    /\ missed' = [missed EXCEPT ![t] = TRUE]
    /\ pc' = [pc EXCEPT ![t] = "webhook_list"]
    /\ UNCHANGED <<cacheVars, kind, chan, webhook, result, err, before, calls>>
    /\ UNCHANGED <<sessVars, envVars, dataVars>>

\* if let Some(webhook) = self.webhooks_cache.get(&channel_id) { Ok(webhook) }
WebhookGet(t) ==
    /\ pc[t] = "webhook_get"
    /\ IF webhooks_cache[chan[t]] # None
       THEN /\ result' = [result EXCEPT ![t] = webhooks_cache[chan[t]]]
            /\ missed' = [missed EXCEPT ![t] = FALSE]
            /\ pc' = [pc EXCEPT ![t] = AfterWebhook(t)]
       ELSE /\ missed' = [missed EXCEPT ![t] = TRUE]
            /\ pc' = [pc EXCEPT ![t] = "webhook_list"]
            /\ UNCHANGED result
    /\ UNCHANGED <<cacheVars, kind, chan, webhook, err, before, calls>>
    /\ UNCHANGED <<sessVars, envVars, dataVars>>

\* self.http.channel_webhooks(channel_id).exec().await?.models().await?
\*     .into_iter().find(..)
WebhookList(t) ==
    /\ pc[t] = "webhook_list"
    /\ \E ok \in BOOLEAN :
        /\ Log(t, Call("channel_webhooks", "", chan[t], <<>>, ok))
        /\ IF ~ok
           THEN /\ err' = [err EXCEPT ![t] = "other"]
                /\ pc' = [pc EXCEPT ![t] = WebhookFailed(t)]
                /\ UNCHANGED webhook
           ELSE LET found == FindOwn(remote_webhooks[chan[t]]) IN
                /\ webhook' = [webhook EXCEPT ![t] = found]
                /\ pc' = [pc EXCEPT ![t] =
                        IF found # NoWebhook THEN "webhook_insert" ELSE "webhook_create"]
                /\ UNCHANGED err
    /\ UNCHANGED <<cacheVars, kind, chan, missed, result, before>>
    /\ UNCHANGED <<sessVars, envVars, dataVars>>

\* self.http.create_webhook(channel_id, "any message editor").exec().await?
\*     .model().await?
WebhookCreate(t) ==
    /\ pc[t] = "webhook_create"
    /\ \E ok \in BOOLEAN :
        /\ Log(t, Call("create_webhook", "any message editor", chan[t], <<>>, ok))
        /\ IF ~ok
           THEN /\ err' = [err EXCEPT ![t] = "other"]
                /\ pc' = [pc EXCEPT ![t] = WebhookFailed(t)]
                /\ UNCHANGED <<webhook, remote_webhooks, created>>
           ELSE LET new == Webhook(CreatedId(chan[t], created[chan[t]] + 1), TRUE, TRUE) IN
                /\ remote_webhooks' =
                        [remote_webhooks EXCEPT ![chan[t]] = Append(@, new)]
                /\ created' = [created EXCEPT ![chan[t]] = @ + 1]
                /\ webhook' = [webhook EXCEPT ![t] = new]
                /\ pc' = [pc EXCEPT ![t] = "webhook_insert"]
                /\ UNCHANGED err
    /\ UNCHANGED <<webhooks_cache, remote_deletes, kind, chan, missed, result, before>>
    /\ UNCHANGED <<sessVars, envVars, dataVars>>

\* .try_into()?;  self.webhooks_cache.insert(channel_id, webhook);
WebhookInsert(t) ==
    /\ pc[t] = "webhook_insert"
    /\ IF ~webhook[t].token
       THEN /\ err' = [err EXCEPT ![t] = "other"]
            /\ pc' = [pc EXCEPT ![t] = WebhookFailed(t)]
            /\ UNCHANGED webhooks_cache
       ELSE /\ webhooks_cache' = [webhooks_cache EXCEPT ![chan[t]] = webhook[t].id]
            /\ pc' = [pc EXCEPT ![t] = "webhook_reget"]
            /\ UNCHANGED err
    /\ UNCHANGED <<remote_webhooks, created, remote_deletes,
                   kind, chan, missed, webhook, result, before, calls>>
    /\ UNCHANGED <<sessVars, envVars, dataVars>>

\* Ok(self.webhooks_cache.get(&channel_id).ok()?)
WebhookReget(t) ==
    /\ pc[t] = "webhook_reget"
    /\ IF webhooks_cache[chan[t]] = None
       THEN /\ err' = [err EXCEPT ![t] = "other"]
            /\ pc' = [pc EXCEPT ![t] = WebhookFailed(t)]
            /\ UNCHANGED result
       ELSE /\ result' = [result EXCEPT ![t] = webhooks_cache[chan[t]]]
            /\ pc' = [pc EXCEPT ![t] = AfterWebhook(t)]
            /\ UNCHANGED err
    /\ UNCHANGED <<cacheVars, kind, chan, missed, webhook, before, calls>>
    /\ UNCHANGED <<sessVars, envVars, dataVars>>

\* ------------------------------------------------------------------------
\* Context::webhooks_cache_update  (src/src/webhooks.rs)
\* ------------------------------------------------------------------------
\* a caller enters webhooks_cache_update(channel_id)
StartUpdate(t, c) ==
    /\ pc[t] = "idle"
    /\ kind[t] = "update"
    /\ pc' = [pc EXCEPT ![t] = "update_check"]
    /\ chan' = [chan EXCEPT ![t] = c]
    /\ before' = [before EXCEPT ![t] = Returned]
    /\ UNCHANGED <<cacheVars, kind, missed, webhook, result, err, calls>>
    /\ UNCHANGED <<sessVars, envVars, dataVars>>

\* if self.webhooks_cache.contains_key(&channel_id) && ..
UpdateCheck(t) ==
    /\ pc[t] = "update_check"
    /\ pc' = [pc EXCEPT ![t] =
            IF webhooks_cache[chan[t]] # None THEN "update_list" ELSE "done"]
    /\ UNCHANGED <<cacheVars, kind, chan, missed, webhook, result, err, before, calls>>
    /\ UNCHANGED <<sessVars, envVars, dataVars>>

\* .. && !self.http.channel_webhooks(channel_id).exec().await?.models().await?
\*     .iter().any(..)
UpdateList(t) ==
    /\ pc[t] = "update_list"
    /\ \E ok \in BOOLEAN :
        /\ Log(t, Call("channel_webhooks", "", chan[t], <<>>, ok))
        /\ IF ~ok
           THEN /\ err' = [err EXCEPT ![t] = "other"]
                /\ pc' = [pc EXCEPT ![t] = "done"]
           ELSE /\ pc' = [pc EXCEPT ![t] =
                        IF AnyOwn(remote_webhooks[chan[t]]) THEN "done" ELSE "update_remove"]
                /\ UNCHANGED err
    /\ UNCHANGED <<cacheVars, kind, chan, missed, webhook, result, before>>
    /\ UNCHANGED <<sessVars, envVars, dataVars>>

\* self.webhooks_cache.remove(&channel_id);
UpdateRemove(t) ==
    /\ pc[t] = "update_remove"
    /\ webhooks_cache' = [webhooks_cache EXCEPT ![chan[t]] = None]
    /\ pc' = [pc EXCEPT ![t] = "done"]
    /\ UNCHANGED <<remote_webhooks, created, remote_deletes,
                   kind, chan, missed, webhook, result, err, before, calls>>
    /\ UNCHANGED <<sessVars, envVars, dataVars>>

\* ------------------------------------------------------------------------
\* The platform: a third party deletes one of a channel's webhooks
\* ------------------------------------------------------------------------
RemoteDelete(c) ==
    /\ remote_deletes < MaxRemoteDeletes
    /\ \E i \in 1..Len(remote_webhooks[c]) :
        /\ remote_webhooks[c][i].own
        /\ remote_webhooks' = [remote_webhooks EXCEPT ![c] = RemoveAt(@, i)]
    /\ remote_deletes' = remote_deletes + 1
    /\ UNCHANGED <<webhooks_cache, created, taskVars>>
    /\ UNCHANGED <<sessVars, envVars, dataVars>>

\* ------------------------------------------------------------------------
\* The cached messages and the eligibility checks  (src/src/interaction/edit.rs)
\* ------------------------------------------------------------------------
\* what cached_message_is_weird looks at
CachedWeirdFeatures ==
    { "activity", "application", "application_id", "components", "embeds",
      "interaction", "kind", "pinned", "reactions", "sticker_items", "webhook_id" }

\* what message_is_weird looks at: the same, and author.bot
WeirdFeatures == CachedWeirdFeatures \cup {"bot"}

\* the feature sets the modelled messages carry
FeatureChoices == { {}, {"reactions"}, {"bot"} }

Message(id, features) == [id |-> id, features |-> features]

\* fn message_is_weird(message: &Message) -> bool
message_is_weird(m) == m.features \cap WeirdFeatures # {}

\* fn cached_message_is_weird(message: &CachedMessage) -> bool
cached_message_is_weird(m) == m.features \cap CachedWeirdFeatures # {}

\* the cached histories: ids grow with time, the newest message comes first
Histories ==
    UNION { { [i \in 1..n |-> Message(n + 1 - i, f[n + 1 - i])] :
                f \in [1..n -> FeatureChoices] } : n \in 0..MaxHist }

\* the message ids an interaction may name
TargetIds == 1..MaxHist

Ids(ms) == [i \in 1..Len(ms) |-> ms[i].id]

\* self.cache.message(id)
IsCached(id) == \E i \in 1..Len(history) : history[i].id = id

CachedMessage(id) == history[CHOOSE i \in 1..Len(history) : history[i].id = id]

\* the lengths of the text a form submission may carry
InputLens == {MaxContentLen, MaxContentLen + 1}

\* exec.content(&input.value)?: the request builder refuses a content of
\* more than 2000 characters
ContentValid(len) == len <= MaxContentLen

\* a thread of channel c, and the parent of a thread
ThreadOf(c) == 100 + c
IsThread(ch) == ch > 100
ParentOf(ch) == ch - 100

\* .take_while(|&id| id != edit_message_id)
RECURSIVE TakeWhileNot(_, _)
TakeWhileNot(ids, target) ==
    IF ids = <<>> \/ Head(ids) = target THEN <<>>
    ELSE <<Head(ids)>> \o TakeWhileNot(Tail(ids), target)

\* channel_messages(..).take_while(..).chain([edit_message_id]): the ids from
\* the newest message back to the target
UnfilteredIds(hist, target) == Append(TakeWhileNot(Ids(hist), target), target)

\* the bug of walking `unfiltered` as it is, newest first
Rev_Forward(seq) == seq

\* .iter().rev()
Rev(seq) == [i \in 1..Len(seq) |-> seq[Len(seq) + 1 - i]]

\* the bug of stopping at a weird message instead of skipping it: only the
\* messages newer than the newest weird one are kept
RECURSIVE FilterWeird_Truncate(_)
FilterWeird_Truncate(ms) ==
    IF ms = <<>> THEN <<>>
    ELSE IF \E i \in 1..Len(ms) : cached_message_is_weird(ms[i])
         THEN FilterWeird_Truncate(Tail(ms))
         ELSE ms

\* .filter(|m| !cached_message_is_weird(m))
RECURSIVE FilterWeird(_)
FilterWeird(ms) ==
    IF ms = <<>> THEN <<>>
    ELSE IF cached_message_is_weird(Head(ms)) THEN FilterWeird(Tail(ms))
    ELSE <<Head(ms)>> \o FilterWeird(Tail(ms))

\* the bug of keeping the weird messages in the replay set
ReplayMessages_Unfiltered(unfiltered) == Rev(unfiltered)

\* let messages: Vec<_> = unfiltered.iter().rev().filter(..).collect();
ReplayMessages(unfiltered) == FilterWeird(Rev(unfiltered))

\* the reply the filter leaves behind
ReplyFor(unfiltered) ==
    IF \E i \in 1..Len(unfiltered) : cached_message_is_weird(unfiltered[i])
    THEN "done_weird" ELSE "done"

\* the bug of deleting in batch whatever the number of messages
DeleteCall_AlwaysBatch(ch, ms, ok) ==
    [op |-> "delete_messages", arg |-> "", id |-> None, ids |-> Ids(ms), ok |-> ok]

\* the delete call of modal_submit: delete_message for one message,
\* delete_messages otherwise
DeleteCall(ch, ms, ok) ==
    IF Len(ms) = 1
    THEN [op |-> "delete_message", arg |-> "", id |-> ms[1].id, ids |-> <<>>, ok |-> ok]
    ELSE [op |-> "delete_messages", arg |-> "", id |-> None, ids |-> Ids(ms), ok |-> ok]

\* the bug of putting the submitted text in every re-post
RepostPayload_Always(m, target) == "edited"

\* what a re-post carries: "edited" is the submitted text (input.value) under
\* the author's name followed by "(edited by <the submitting member>)",
\* "original" is the message's own content, with the urls of its
\* attachments, under the author's name and avatar
RepostPayload(m, target) ==
    IF m.id = target THEN "edited" ELSE "original"

\* the bug of going on after a failed re-post
AfterRepost_IgnoreFailure(ms, i, ok) ==
    IF i < Len(ms) THEN "repost" ELSE "delete"

\* where the re-post loop goes after the call for messages[i] has returned
AfterRepost(ms, i, ok) ==
    IF ~ok THEN "handle_err"
    ELSE IF i < Len(ms) THEN "repost" ELSE "delete"

\* ------------------------------------------------------------------------
\* Handler::new, Handler::handle, Handler::defer  (src/src/interaction.rs)
\* ------------------------------------------------------------------------
SessionKinds == {"command", "component", "modal", "other"}

\* the bug of not recognising the errors of the edit handler
UserErrors_PermissionsOnly ==
    { "UserMissingPermissions", "SelfMissingPermissions" }

\* the errors handle() shows to the user as they are (interaction::Error)
UserErrors ==
    { "NoCachedMessages", "MessageTooLong", "MessageWeird",
      "UserMissingPermissions", "SelfMissingPermissions" }

\* the response type defer() picks for an interaction kind, "" when it sends
\* nothing
DeferType(k) ==
    CASE k = "command" -> "DeferredChannelMessageWithSource"
      [] k = "modal" -> "DeferredUpdateMessage"
      [] OTHER -> ""

\* the handler handle() dispatches an interaction kind to
HandlerOf(k) ==
    CASE k = "command" -> "cmd_check"
      [] k = "component" -> "select"
      [] k = "modal" -> "modal_defer"

\* fn check_member_permissions(member, required): no handler calls it
check_member_permissions(can_manage) ==
    IF can_manage THEN "ok" ELSE "UserMissingPermissions"

Fail(t, e, to) ==
    /\ err' = [err EXCEPT ![t] = e]
    /\ pc' = [pc EXCEPT ![t] = to]

Goto(t, to) ==
    /\ pc' = [pc EXCEPT ![t] = to]
    /\ UNCHANGED err

\* Context::interaction_handler / Handler::new: only the three known
\* interaction types get a handler
HandlerNew(t) ==
    /\ pc[t] = "new"
    /\ IF kind[t] = "other"
       THEN Fail(t, "unknown_type", "report")
       ELSE Goto(t, "defer")
    /\ UNCHANGED <<cacheVars, kind, chan, missed, webhook, result, before, calls,
                   sessVars, envVars, dataVars>>

\* handle: self.defer(interaction.kind()).await?
Defer(t) ==
    /\ pc[t] = "defer"
    /\ IF DeferType(kind[t]) = ""
       THEN /\ Goto(t, "dispatch")
            /\ UNCHANGED calls
       ELSE \E ok \in BOOLEAN :
            /\ Log(t, Call("create_response", DeferType(kind[t]), None, <<>>, ok))
            /\ IF ok THEN Goto(t, "dispatch")
               ELSE Fail(t, "create_response", "report")
    /\ UNCHANGED <<cacheVars, kind, chan, missed, webhook, result, before,
                   sessVars, envVars, dataVars>>

\* handle: match interaction { .. }, then handle_command / handle_component /
\* handle_modal_submit match the name or custom id
Dispatch(t) ==
    /\ pc[t] = "dispatch"
    /\ dispatched' = [dispatched EXCEPT ![t] = TRUE]
    /\ \E known \in BOOLEAN :
        IF known THEN Goto(t, HandlerOf(kind[t]))
        ELSE Fail(t, "unknown_name", "handle_err")
    /\ UNCHANGED <<cacheVars, kind, chan, missed, webhook, result, before, calls,
                   thread_id, edit_message_id, messages, idx, reply, sinks, envVars, dataVars>>

\* handle: the error arm, a user error is shown as it is, any other as the
\* apology and returned
HandleErr(t) ==
    /\ pc[t] = "handle_err"
    /\ \E ok \in BOOLEAN :
        IF err[t] \in UserErrors
        THEN /\ Log(t, Call("update_response", err[t], None, <<>>, ok))
             /\ IF ok THEN Goto(t, "done")
                ELSE Fail(t, "render_failed", "report")
        ELSE /\ Log(t, Call("update_response", "apology", None, <<>>, ok))
             /\ IF ok THEN Goto(t, "report")
                ELSE Fail(t, "render_failed", "report")
    /\ handler_err' = [handler_err EXCEPT ![t] = err[t]]
    /\ UNCHANGED <<cacheVars, kind, chan, missed, webhook, result, before,
                   sessVars, envVars, weirdVars, member_can_manage, input_len>>

\* ------------------------------------------------------------------------
\* Context::handle_event, Context::handle_error  (src/src/main.rs)
\* ------------------------------------------------------------------------
\* handle_error: self.message_owner(&err_msg)
Report(t) ==
    /\ pc[t] = "report"
    /\ \E ok \in BOOLEAN :
        /\ Log(t, Call("create_message", "error", None, <<>>, ok))
        /\ IF ok
           THEN /\ sinks' = [sinks EXCEPT ![t] = @ \cup {"owner"}]
                /\ pc' = [pc EXCEPT ![t] = "done"]
           ELSE /\ pc' = [pc EXCEPT ![t] = "report2"]
                /\ UNCHANGED sinks
    /\ UNCHANGED <<cacheVars, kind, chan, missed, webhook, result, err, before,
                   dispatched, thread_id, edit_message_id, messages, idx, reply,
                   envVars, dataVars>>

\* handle_error: the second message to the owner, then the error file is
\* opened; the message goes to stderr when the file cannot be opened
Report2(t) ==
    /\ pc[t] = "report2"
    /\ \E ok \in BOOLEAN, opened \in BOOLEAN :
        /\ Log(t, Call("create_message", "notice", None, <<>>, ok))
        /\ sinks' = [sinks EXCEPT ![t] =
                @ \cup (IF ok THEN {"owner_notice"} ELSE {})
                  \cup (IF opened THEN {} ELSE {"stderr"})]
    /\ pc' = [pc EXCEPT ![t] = "done"]
    /\ UNCHANGED <<cacheVars, kind, chan, missed, webhook, result, err, before,
                   dispatched, thread_id, edit_message_id, messages, idx, reply,
                   envVars, dataVars>>

\* ------------------------------------------------------------------------
\* edit::Handler  (src/src/interaction/edit.rs)
\* ------------------------------------------------------------------------
\* the checks of _command in the order the code makes them: "ok", or the
\* error it returns
CommandCheck(perm, resolved, cached, len, m) ==
    CASE perm = "error" -> "context"
      [] perm = "missing" -> "SelfMissingPermissions"
      [] ~resolved -> "context"
      [] ~cached -> "NoCachedMessages"
      [] len > MaxContentLen -> "MessageTooLong"
      [] message_is_weird(m) -> "MessageWeird"
      [] OTHER -> "ok"

\* _command up to the response: permissions, the resolved message, the cache,
\* the length and the eligibility of the target
CmdCheck(t) ==
    /\ pc[t] = "cmd_check"
    /\ \E perm \in {"ok", "missing", "error"}, resolved \in BOOLEAN,
          target \in TargetIds, len \in {MaxContentLen, MaxContentLen + 1},
          features \in FeatureChoices :
        LET check == CommandCheck(perm, resolved, IsCached(target), len,
                                  Message(target, features)) IN
        /\ edit_message_id' = [edit_message_id EXCEPT ![t] =
                IF perm = "ok" /\ resolved THEN target ELSE None]
        /\ IF check = "ok" THEN Goto(t, "cmd_modal")
           ELSE Fail(t, check, "cmd_defer")
    /\ UNCHANGED <<cacheVars, kind, chan, missed, webhook, result, before, calls,
                   dispatched, thread_id, messages, idx, reply, sinks, envVars, dataVars>>

\* _command: self.create_response(Modal ..)
CmdModal(t) ==
    /\ pc[t] = "cmd_modal"
    /\ \E ok \in BOOLEAN :
        /\ Log(t, Call("create_response", "Modal", edit_message_id[t], <<>>, ok))
        /\ IF ok THEN Goto(t, "done")
           ELSE Fail(t, "create_response", "cmd_defer")
    /\ UNCHANGED <<cacheVars, kind, chan, missed, webhook, result, before,
                   sessVars, envVars, dataVars>>

\* command: if let Err(err) = self._command(..) { self.defer().await?; Err(err) }
CmdDefer(t) ==
    /\ pc[t] = "cmd_defer"
    /\ \E ok \in BOOLEAN :
        /\ Log(t, Call("create_response", DeferType(kind[t]), None, <<>>, ok))
        /\ IF ok THEN Goto(t, "handle_err")
           ELSE Fail(t, "create_response", "handle_err")
    /\ UNCHANGED <<cacheVars, kind, chan, missed, webhook, result, before,
                   sessVars, envVars, dataVars>>

\* message_select: the edit form is opened for the chosen message
MessageSelect(t) ==
    /\ pc[t] = "select"
    /\ \E ok \in BOOLEAN, target \in TargetIds :
        /\ edit_message_id' = [edit_message_id EXCEPT ![t] = target]
        /\ Log(t, Call("create_response", "Modal", target, <<>>, ok))
        /\ IF ok THEN Goto(t, "done")
           ELSE Fail(t, "create_response", "handle_err")
    /\ UNCHANGED <<cacheVars, kind, chan, missed, webhook, result, before,
                   dispatched, thread_id, messages, idx, reply, sinks, envVars, dataVars>>

\* modal_submit: self.defer().await?
ModalDefer(t) ==
    /\ pc[t] = "modal_defer"
    /\ \E ok \in BOOLEAN :
        /\ Log(t, Call("create_response", DeferType(kind[t]), None, <<>>, ok))
        /\ IF ok THEN Goto(t, "modal_resolve")
           ELSE Fail(t, "create_response", "handle_err")
    /\ UNCHANGED <<cacheVars, kind, chan, missed, webhook, result, before,
                   sessVars, envVars, dataVars>>

\* modal_submit: the channel and, for a thread, its parent; the text input
ModalResolve(t) ==
    /\ pc[t] = "modal_resolve"
    /\ \E found \in BOOLEAN, len \in InputLens :
        IF ~found
        THEN /\ Fail(t, "context", "handle_err")
             /\ UNCHANGED <<chan, thread_id, input_len>>
        ELSE /\ chan' = [chan EXCEPT ![t] =
                    IF IsThread(ichannel) THEN ParentOf(ichannel) ELSE ichannel]
             /\ thread_id' = [thread_id EXCEPT ![t] =
                    IF IsThread(ichannel) THEN ichannel ELSE None]
             /\ input_len' = [input_len EXCEPT ![t] = len]
             /\ Goto(t, "webhook_get")
    /\ UNCHANGED <<cacheVars, kind, missed, webhook, result, before, calls,
                   dispatched, edit_message_id, messages, idx, reply, sinks,
                   envVars, weirdVars, handler_err, member_can_manage>>

\* modal_submit: the id is parsed, the messages from the newest back to the
\* target are read from the cache and the weird ones are dropped
ModalBuild(t) ==
    /\ pc[t] = "parse_id"
    /\ \E target \in TargetIds \cup {None} :
        LET ids == UnfilteredIds(history, target) IN
        IF target = None \/ history = <<>> \/ \E i \in 1..Len(ids) : ~IsCached(ids[i])
        THEN /\ Fail(t, "context", "handle_err")
             /\ UNCHANGED <<edit_message_id, messages, reply>>
        ELSE LET unfiltered == [i \in 1..Len(ids) |-> CachedMessage(ids[i])] IN
             /\ edit_message_id' = [edit_message_id EXCEPT ![t] = target]
             /\ messages' = [messages EXCEPT ![t] = ReplayMessages(unfiltered)]
             /\ reply' = [reply EXCEPT ![t] = ReplyFor(unfiltered)]
             /\ Goto(t, IF ReplayMessages(unfiltered) = <<>> THEN "delete" ELSE "repost")
    /\ UNCHANGED <<cacheVars, kind, chan, missed, webhook, result, before, calls,
                   dispatched, thread_id, idx, sinks, envVars, dataVars>>

\* modal_submit: one turn of the re-post loop; the member, the user and the
\* submitting member are looked up, the content is set (for the target, the
\* submitted text), then the webhook is executed and awaited; the platform
\* answers "not found" for a webhook it no longer has
Repost(t) ==
    /\ pc[t] = "repost"
    /\ LET m == messages[t][idx[t]] IN
       \E found \in BOOLEAN, answer \in BOOLEAN :
        LET ok == answer /\ Exists(chan[t], result[t]) IN
        IF ~found
        THEN /\ Fail(t, "context", "handle_err")
             /\ UNCHANGED <<calls, idx>>
        ELSE IF m.id = edit_message_id[t] /\ ~ContentValid(input_len[t])
        THEN /\ Fail(t, "validation", "handle_err")
             /\ UNCHANGED <<calls, idx>>
        ELSE /\ Log(t, Call("execute_webhook",
                            RepostPayload(m, edit_message_id[t]), m.id, <<>>, ok))
             /\ IF ok THEN Goto(t, AfterRepost(messages[t], idx[t], ok))
                ELSE Fail(t, "execute_webhook", AfterRepost(messages[t], idx[t], ok))
             /\ idx' = [idx EXCEPT ![t] = @ + 1]
    /\ UNCHANGED <<cacheVars, kind, chan, missed, webhook, result, before,
                   dispatched, thread_id, edit_message_id, messages, reply, sinks,
                   envVars, dataVars>>

\* modal_submit: the originals are deleted
Delete(t) ==
    /\ pc[t] = "delete"
    /\ \E ok \in BOOLEAN :
        /\ Log(t, DeleteCall(ichannel, messages[t], ok))
        /\ IF ok THEN Goto(t, "modal_update")
           ELSE Fail(t, "delete", "handle_err")
    /\ UNCHANGED <<cacheVars, kind, chan, missed, webhook, result, before,
                   sessVars, envVars, dataVars>>

\* modal_submit: self.update_response().content(reply).exec().await?
ModalUpdate(t) ==
    /\ pc[t] = "modal_update"
    /\ \E ok \in BOOLEAN :
        /\ Log(t, Call("update_response", reply[t], None, <<>>, ok))
        /\ IF ok THEN Goto(t, "done")
           ELSE Fail(t, "update_response", "handle_err")
    /\ UNCHANGED <<cacheVars, kind, chan, missed, webhook, result, before,
                   sessVars, envVars, dataVars>>

\* ------------------------------------------------------------------------
\* Spec: one task per interaction event
\* ------------------------------------------------------------------------
Init ==
    /\ webhooks_cache = [c \in Channels |-> None]
    /\ remote_webhooks \in [Channels -> UNION {RemoteInit(c) : c \in Channels}]
    /\ \A c \in Channels : remote_webhooks[c] \in RemoteInit(c)
    /\ created = [c \in Channels |-> 0]
    /\ remote_deletes = 0
    /\ pc = [t \in Sessions |-> "new"]
    /\ kind \in [Sessions -> SessionKinds]
    /\ chan = [t \in Sessions |-> None]
    /\ missed = [t \in Sessions |-> FALSE]
    /\ webhook = [t \in Sessions |-> NoWebhook]
    /\ result = [t \in Sessions |-> None]
    /\ err = [t \in Sessions |-> "none"]
    /\ before = [t \in Sessions |-> {}]
    /\ calls = [t \in Sessions |-> <<>>]
    /\ dispatched = [t \in Sessions |-> FALSE]
    /\ thread_id = [t \in Sessions |-> None]
    /\ edit_message_id = [t \in Sessions |-> None]
    /\ messages = [t \in Sessions |-> <<>>]
    /\ idx = [t \in Sessions |-> 1]
    /\ reply = [t \in Sessions |-> "done"]
    /\ sinks = [t \in Sessions |-> {}]
    /\ ichannel \in Channels \cup {ThreadOf(c) : c \in Channels}
    /\ history \in Histories
    /\ probe = Message(None, {})
    /\ verdict = NoVerdict
    /\ handler_err = [t \in Sessions |-> "none"]
    /\ member_can_manage \in [Sessions -> BOOLEAN]
    /\ input_len = [t \in Sessions |-> None]

Next ==
    \/ \E t \in Tasks : HandlerNew(t)
    \/ \E t \in Tasks : Defer(t)
    \/ \E t \in Tasks : Dispatch(t)
    \/ \E t \in Tasks : CmdCheck(t)
    \/ \E t \in Tasks : CmdModal(t)
    \/ \E t \in Tasks : CmdDefer(t)
    \/ \E t \in Tasks : MessageSelect(t)
    \/ \E t \in Tasks : ModalDefer(t)
    \/ \E t \in Tasks : ModalResolve(t)
    \/ \E t \in Tasks : WebhookGet(t)
    \/ \E t \in Tasks : WebhookList(t)
    \/ \E t \in Tasks : WebhookCreate(t)
    \/ \E t \in Tasks : WebhookInsert(t)
    \/ \E t \in Tasks : WebhookReget(t)
    \/ \E t \in Tasks : ModalBuild(t)
    \/ \E t \in Tasks : Repost(t)
    \/ \E t \in Tasks : Delete(t)
    \/ \E t \in Tasks : ModalUpdate(t)
    \/ \E t \in Tasks : HandleErr(t)
    \/ \E t \in Tasks : Report(t)
    \/ \E t \in Tasks : Report2(t)

Spec == Init /\ [][Next]_vars

\* ------------------------------------------------------------------------
\* SpecCache: callers of the webhook cache, each running one call
\* ------------------------------------------------------------------------
InitCache ==
    /\ webhooks_cache = [c \in Channels |-> None]
    /\ remote_webhooks \in [Channels -> UNION {RemoteInit(c) : c \in Channels}]
    /\ \A c \in Channels : remote_webhooks[c] \in RemoteInit(c)
    /\ created = [c \in Channels |-> 0]
    /\ remote_deletes = 0
    /\ pc = [t \in Callers |-> "idle"]
    /\ kind \in [Callers -> {"acquire", "update"}]
    /\ chan = [t \in Callers |-> None]
    /\ missed = [t \in Callers |-> FALSE]
    /\ webhook = [t \in Callers |-> NoWebhook]
    /\ result = [t \in Callers |-> None]
    /\ err = [t \in Callers |-> "none"]
    /\ before = [t \in Callers |-> {}]
    /\ calls = [t \in Callers |-> <<>>]
    /\ dispatched = [t \in Callers |-> FALSE]
    /\ thread_id = [t \in Callers |-> None]
    /\ edit_message_id = [t \in Callers |-> None]
    /\ messages = [t \in Callers |-> <<>>]
    /\ idx = [t \in Callers |-> 1]
    /\ reply = [t \in Callers |-> "done"]
    /\ sinks = [t \in Callers |-> {}]
    /\ ichannel = None
    /\ history = <<>>
    /\ probe = Message(None, {})
    /\ verdict = NoVerdict
    /\ handler_err = [t \in Callers |-> "none"]
    /\ member_can_manage = [t \in Callers |-> TRUE]
    /\ input_len = [t \in Callers |-> None]

NextCache ==
    \/ \E t \in Tasks, c \in Channels : StartWebhook(t, c)
    \/ \E t \in Tasks : WebhookGet(t)
    \/ \E t \in Tasks : WebhookList(t)
    \/ \E t \in Tasks : WebhookCreate(t)
    \/ \E t \in Tasks : WebhookInsert(t)
    \/ \E t \in Tasks : WebhookReget(t)
    \/ \E t \in Tasks, c \in Channels : StartUpdate(t, c)
    \/ \E t \in Tasks : UpdateCheck(t)
    \/ \E t \in Tasks : UpdateList(t)
    \/ \E t \in Tasks : UpdateRemove(t)
    \/ \E c \in Channels : RemoteDelete(c)

SpecCache == InitCache /\ [][NextCache]_vars

\* ------------------------------------------------------------------------
\* SpecWeird: the two eligibility checks applied to one message
\* ------------------------------------------------------------------------
\* the callers and sessions of a run in which the handlers do not run
NoTasks ==
    /\ webhooks_cache = [c \in Channels |-> None]
    /\ remote_webhooks = [c \in Channels |-> <<>>]
    /\ created = [c \in Channels |-> 0]
    /\ remote_deletes = 0
    /\ pc = <<>> /\ kind = <<>> /\ chan = <<>> /\ missed = <<>>
    /\ webhook = <<>> /\ result = <<>> /\ err = <<>> /\ before = <<>>
    /\ calls = <<>> /\ dispatched = <<>> /\ thread_id = <<>>
    /\ edit_message_id = <<>> /\ messages = <<>> /\ idx = <<>>
    /\ reply = <<>> /\ sinks = <<>> /\ handler_err = <<>>
    /\ member_can_manage = <<>> /\ input_len = <<>>
    /\ ichannel = None
    /\ history = <<>>

\* a message with any of the features the checks look at
InitWeird ==
    /\ NoTasks
    /\ probe \in {Message(1, f) : f \in SUBSET WeirdFeatures}
    /\ verdict = NoVerdict

\* message_is_weird(&message) in _command and cached_message_is_weird(m) in
\* the filter of modal_submit, for a message and its cached copy
CheckWeird ==
    /\ ~verdict.asked
    /\ verdict' = [asked |-> TRUE,
                   command |-> message_is_weird(probe),
                   cached |-> cached_message_is_weird(probe)]
    /\ UNCHANGED <<cacheVars, taskVars, sessVars, envVars, probe, handler_err,
                   member_can_manage, input_len>>

NextWeird == CheckWeird

SpecWeird == InitWeird /\ [][NextWeird]_vars

\* ------------------------------------------------------------------------
\* SpecHeal: form submissions in a channel whose webhook is already cached
\* ------------------------------------------------------------------------
\* what a channel may hold once its webhook has been cached: the webhook
\* still there, or deleted by a third party since
RemoteWarm(c) ==
    { <<Webhook(OwnId(c), TRUE, TRUE)>>,
      <<Webhook(ForeignId(c), FALSE, TRUE), Webhook(OwnId(c), TRUE, TRUE)>>,
      <<>>,
      <<Webhook(ForeignId(c), FALSE, TRUE)>> }

\* an earlier replication has left the webhook of every channel in the cache
InitHeal ==
    /\ webhooks_cache = [c \in Channels |-> OwnId(c)]
    /\ remote_webhooks \in [Channels -> UNION {RemoteWarm(c) : c \in Channels}]
    /\ \A c \in Channels : remote_webhooks[c] \in RemoteWarm(c)
    /\ created = [c \in Channels |-> 0]
    /\ remote_deletes = 0
    /\ pc = [t \in Sessions |-> "new"]
    /\ kind = [t \in Sessions |-> "modal"]
    /\ chan = [t \in Sessions |-> None]
    /\ missed = [t \in Sessions |-> FALSE]
    /\ webhook = [t \in Sessions |-> NoWebhook]
    /\ result = [t \in Sessions |-> None]
    /\ err = [t \in Sessions |-> "none"]
    /\ before = [t \in Sessions |-> {}]
    /\ calls = [t \in Sessions |-> <<>>]
    /\ dispatched = [t \in Sessions |-> FALSE]
    /\ thread_id = [t \in Sessions |-> None]
    /\ edit_message_id = [t \in Sessions |-> None]
    /\ messages = [t \in Sessions |-> <<>>]
    /\ idx = [t \in Sessions |-> 1]
    /\ reply = [t \in Sessions |-> "done"]
    /\ sinks = [t \in Sessions |-> {}]
    /\ ichannel \in Channels \cup {ThreadOf(c) : c \in Channels}
    /\ history \in Histories
    /\ probe = Message(None, {})
    /\ verdict = NoVerdict
    /\ handler_err = [t \in Sessions |-> "none"]
    /\ member_can_manage = [t \in Sessions |-> TRUE]
    /\ input_len = [t \in Sessions |-> None]

\* the steps of a form submission that finds the webhook in the cache, and
\* the third party
NextHeal ==
    \/ \E t \in Tasks : HandlerNew(t)
    \/ \E t \in Tasks : Defer(t)
    \/ \E t \in Tasks : Dispatch(t)
    \/ \E t \in Tasks : ModalDefer(t)
    \/ \E t \in Tasks : ModalResolve(t)
    \/ \E t \in Tasks : WebhookGet(t)
    \/ \E t \in Tasks : ModalBuild(t)
    \/ \E t \in Tasks : Repost(t)
    \/ \E t \in Tasks : Delete(t)
    \/ \E t \in Tasks : ModalUpdate(t)
    \/ \E t \in Tasks : HandleErr(t)
    \/ \E t \in Tasks : Report(t)
    \/ \E t \in Tasks : Report2(t)
    \/ \E c \in Channels : RemoteDelete(c)

SpecHeal == InitHeal /\ [][NextHeal]_vars

\* ------------------------------------------------------------------------
\* SpecPair: form submissions of one channel in flight together
\* ------------------------------------------------------------------------
Submitters == 1..NumSubmitters

\* main: tokio::spawn(Arc::clone(&ctx).handle_event(event)) for each event;
\* the form submissions come from one channel whose cache holds MaxHist
\* plain messages and whose webhook is cached
InitPair ==
    /\ webhooks_cache = [c \in Channels |-> OwnId(c)]
    /\ remote_webhooks = [c \in Channels |-> <<Webhook(OwnId(c), TRUE, TRUE)>>]
    /\ created = [c \in Channels |-> 0]
    /\ remote_deletes = 0
    /\ pc = [t \in Submitters |-> "new"]
    /\ kind = [t \in Submitters |-> "modal"]
    /\ chan = [t \in Submitters |-> None]
    /\ missed = [t \in Submitters |-> FALSE]
    /\ webhook = [t \in Submitters |-> NoWebhook]
    /\ result = [t \in Submitters |-> None]
    /\ err = [t \in Submitters |-> "none"]
    /\ before = [t \in Submitters |-> {}]
    /\ calls = [t \in Submitters |-> <<>>]
    /\ dispatched = [t \in Submitters |-> FALSE]
    /\ thread_id = [t \in Submitters |-> None]
    /\ edit_message_id = [t \in Submitters |-> None]
    /\ messages = [t \in Submitters |-> <<>>]
    /\ idx = [t \in Submitters |-> 1]
    /\ reply = [t \in Submitters |-> "done"]
    /\ sinks = [t \in Submitters |-> {}]
    /\ ichannel \in Channels
    /\ history = [i \in 1..MaxHist |-> Message(MaxHist + 1 - i, {})]
    /\ probe = Message(None, {})
    /\ verdict = NoVerdict
    /\ handler_err = [t \in Submitters |-> "none"]
    /\ member_can_manage = [t \in Submitters |-> TRUE]
    /\ input_len = [t \in Submitters |-> None]

\* the steps of the form submissions, interleaved at their awaits
NextPair ==
    \/ \E t \in Tasks : HandlerNew(t)
    \/ \E t \in Tasks : Defer(t)
    \/ \E t \in Tasks : Dispatch(t)
    \/ \E t \in Tasks : ModalDefer(t)
    \/ \E t \in Tasks : ModalResolve(t)
    \/ \E t \in Tasks : WebhookGet(t)
    \/ \E t \in Tasks : ModalBuild(t)
    \/ \E t \in Tasks : Repost(t)
    \/ \E t \in Tasks : Delete(t)
    \/ \E t \in Tasks : ModalUpdate(t)
    \/ \E t \in Tasks : HandleErr(t)
    \/ \E t \in Tasks : Report(t)
    \/ \E t \in Tasks : Report2(t)

SpecPair == InitPair /\ [][NextPair]_vars

\* ------------------------------------------------------------------------
\* Properties of the webhook cache
\* ------------------------------------------------------------------------
\* the create_webhook calls a task issued
Creations(t) == {i \in 1..Len(calls[t]) : calls[t][i].op = "create_webhook"}

\* two calls of webhook() for one channel ran concurrently, both found the
\* cache cold and both returned an identity
ConcurrentColdAcquires(t1, t2) ==
    /\ t1 # t2
    /\ kind[t1] = "acquire" /\ kind[t2] = "acquire"
    /\ pc[t1] = "done" /\ pc[t2] = "done"
    /\ chan[t1] = chan[t2]
    /\ t1 \notin before[t2] /\ t2 \notin before[t1]
    /\ missed[t1] /\ missed[t2]
    /\ err[t1] = "none" /\ err[t2] = "none"
    /\ remote_deletes = 0

\* C1: two concurrent acquire calls on a cold cache return the identical
\* identity and issue, together, at most one remote creation call.
C1_SingleCreation ==
    \A t1, t2 \in Tasks :
        ConcurrentColdAcquires(t1, t2) =>
            /\ result[t1] = result[t2]
            /\ Cardinality(Creations(t1)) + Cardinality(Creations(t2)) <= 1

\* task t has entered its call
Started(t) == pc[t] # "idle"

\* t1 is an acquire that returned an identity for its channel, and every
\* other call for that channel is an acquire begun after t1 had returned:
\* nothing has overwritten or evicted the entry since
FirstAcquire(t1) ==
    /\ kind[t1] = "acquire"
    /\ pc[t1] = "done"
    /\ result[t1] # None
    /\ \A t \in Tasks \ {t1} :
        (Started(t) /\ chan[t] = chan[t1]) =>
            (kind[t] = "acquire" /\ t1 \in before[t])

\* t2 is a call for the channel of t1 begun after t1 had returned
LaterCall(t1, t2) ==
    t2 # t1 /\ Started(t2) /\ chan[t2] = chan[t1] /\ t1 \in before[t2]

\* C17: after an acquire has cached an identity that is not evicted since,
\* every later acquire for the channel goes from its cache lookup straight
\* to its return, issues no listing and no creation, returns the identity
\* that is stored, and the cache keeps holding that identity.
C17_HitReusesEntry ==
    \A t1, t2 \in Tasks :
        (FirstAcquire(t1) /\ LaterCall(t1, t2)) =>
            /\ pc[t2] \in {"webhook_get", "done"}
            /\ calls[t2] = <<>>
            /\ webhooks_cache[chan[t1]] = result[t1]
            /\ pc[t2] = "done" =>
                /\ result[t2] = result[t1]
                /\ err[t2] = "none"
                /\ ~missed[t2]

\* two acquires after the first have returned its identity, the second of
\* them after the webhook had been deleted remotely
C17_Witness ==
    \E t1, t2, t3 \in Tasks :
        /\ FirstAcquire(t1)
        /\ LaterCall(t1, t2) /\ LaterCall(t1, t3) /\ t2 \in before[t3]
        /\ pc[t2] = "done" /\ pc[t3] = "done"
        /\ missed[t1]
        /\ result[t3] = result[t1]
        /\ remote_deletes > 0

\* the number of webhooks of this application a channel holds remotely
OwnCount(c) ==
    Cardinality({i \in 1..Len(remote_webhooks[c]) : remote_webhooks[c][i].own})

\* two calls ran at the same time
Overlap(t1, t2) ==
    /\ t1 # t2
    /\ Started(t1) /\ Started(t2)
    /\ t1 \notin before[t2] /\ t2 \notin before[t1]

\* the calls made so far ran one after the other
Sequential == \A t1, t2 \in Tasks : ~Overlap(t1, t2)

\* acquire t found the cache empty and has returned an identity
ColdAcquire(t) ==
    kind[t] = "acquire" /\ pc[t] = "done" /\ missed[t] /\ err[t] = "none"

\* C18: in a run of calls made one after the other, an acquire is about to
\* create a webhook only when the channel holds none of this application;
\* an acquire that found one in the listing returns it and has created
\* nothing, one that found none has created exactly the one it returns; so
\* no channel ever holds two webhooks of this application.
C18_CreateOnlyIfNone ==
    Sequential =>
        /\ \A t \in Tasks :
            /\ pc[t] = "webhook_create" => ~AnyOwn(remote_webhooks[chan[t]])
            /\ ColdAcquire(t) =>
                /\ Cardinality(Creations(t)) = (IF webhook[t].id = OwnId(chan[t]) THEN 0 ELSE 1)
                /\ result[t] = webhook[t].id
                /\ webhook[t].own
        /\ \A c \in Channels : OwnCount(c) <= 1

\* in a run of calls made one after the other an acquire has adopted the
\* webhook the channel held, and a later one, after that webhook was deleted
\* remotely and the entry evicted, has created a new one
C18_Witness ==
    \E t1, t2 \in Tasks :
        /\ Sequential
        /\ ColdAcquire(t1) /\ ColdAcquire(t2) /\ t1 \in before[t2]
        /\ chan[t1] = chan[t2]
        /\ Creations(t1) = {} /\ result[t1] = OwnId(chan[t1])
        /\ Cardinality(Creations(t2)) = 1 /\ result[t2] = CreatedId(chan[t2], 1)
        /\ OwnCount(chan[t2]) = 1

\* C19: an invalidation is about to remove the cached entry of a channel
\* only while the channel holds no webhook of this application, whatever
\* the acquires running at the same time have done since its listing.
C19_EvictOnlyIfGone ==
    \A t \in Tasks :
        pc[t] = "update_remove" => ~AnyOwn(remote_webhooks[chan[t]])

\* ------------------------------------------------------------------------
\* Properties of the interaction pipeline
\* ------------------------------------------------------------------------
InteractionKinds == {"command", "component", "modal"}

\* the calls of a task to one of the operations `ops`, in order
CallsOf(t, ops) == SelectSeq(calls[t], LAMBDA c : c.op \in ops)

Acks(t) == CallsOf(t, {"create_response"})
Updates(t) == CallsOf(t, {"update_response"})
Reposts(t) == CallsOf(t, {"execute_webhook"})
Deletes(t) == CallsOf(t, {"delete_message", "delete_messages"})

\* some step of the session has failed
StepFailed(t) == err[t] # "none"

\* C2: a session in which a step failed (the acknowledgment, the dispatch,
\* the replication or the terminal update) has, once it is over, attempted a
\* terminal update.
C2_ResolvedOnFailure ==
    \A t \in Tasks :
        (kind[t] \in InteractionKinds /\ pc[t] = "done" /\ StepFailed(t))
            => Updates(t) # <<>>

\* C3: a session that is over has attempted exactly one acknowledgment
\* (create_response), whatever its kind and whether or not a step failed.
C3_OneAcknowledgment ==
    \A t \in Tasks :
        (kind[t] \in InteractionKinds /\ pc[t] = "done") => Len(Acks(t)) = 1

\* C4: no session attempts more than one terminal update (update_response).
C4_AtMostOneUpdate ==
    \A t \in Tasks : Len(Updates(t)) <= 1

\* C5: no handler is dispatched and no remote call other than the
\* acknowledgment is made in a session that has not been acknowledged.
C5_AckBeforeWork ==
    \A t \in Tasks :
        kind[t] \in InteractionKinds =>
            /\ dispatched[t] => Acks(t) # <<>>
            /\ calls[t] # <<>> => calls[t][1].op = "create_response"

\* ------------------------------------------------------------------------
\* Properties of the replication
\* ------------------------------------------------------------------------
\* modal_submit has built the replay set of session t
Built(t) == kind[t] = "modal" /\ edit_message_id[t] # None

\* the position of a cached message in the history (1 is the newest)
PosOf(id) == CHOOSE i \in 1..Len(history) : history[i].id = id

\* the ids from the target through the newest message, oldest first
WindowIds(target) ==
    [i \in 1..PosOf(target) |-> history[PosOf(target) + 1 - i].id]

\* the ids of the messages sent before the target
OlderIds(target) == {history[i].id : i \in (PosOf(target) + 1)..Len(history)}

\* the positions, from the newest message back to the target, of the weird ones
WeirdPositions(target) ==
    {i \in 1..PosOf(target) : cached_message_is_weird(history[i])}

RepostIds(t) == [i \in 1..Len(Reposts(t)) |-> Reposts(t)[i].id]

Range(seq) == {seq[i] : i \in 1..Len(seq)}

\* the ids handed to the delete calls of a session
DeletedIds(t) ==
    UNION { IF Deletes(t)[i].op = "delete_message"
            THEN {Deletes(t)[i].id} ELSE Range(Deletes(t)[i].ids) :
            i \in 1..Len(Deletes(t)) }

IsPrefix(a, b) == Len(a) <= Len(b) /\ \A i \in 1..Len(a) : a[i] = b[i]

\* the re-post loop of session t has run to its end
RepostsDone(t) == Built(t) /\ (pc[t] \in {"delete", "modal_update"} \/ Deletes(t) # <<>>)

\* C6: with no weird message from the target through the newest message, the
\* re-posts are issued for exactly these messages, oldest first, each one
\* only after the one before it has succeeded, and no message older than the
\* target is re-posted or deleted.
C6_ReplayInOrder ==
    \A t \in Tasks :
        (Built(t) /\ WeirdPositions(edit_message_id[t]) = {}) =>
            /\ IsPrefix(RepostIds(t), WindowIds(edit_message_id[t]))
            /\ RepostsDone(t) => RepostIds(t) = WindowIds(edit_message_id[t])
            /\ \A i \in 1..(Len(Reposts(t)) - 1) : Reposts(t)[i].ok
            /\ OlderIds(edit_message_id[t]) \cap (Range(RepostIds(t)) \cup DeletedIds(t)) = {}

\* a replication of two or more messages, with an older message left in the
\* channel, has re-posted them all and issued its delete
C6_Witness ==
    \E t \in Tasks :
        /\ Built(t) /\ WeirdPositions(edit_message_id[t]) = {}
        /\ Len(WindowIds(edit_message_id[t])) >= 2
        /\ OlderIds(edit_message_id[t]) # {}
        /\ Deletes(t) # <<>>

EligibleIds(target) ==
    {history[i].id : i \in (1..PosOf(target)) \ WeirdPositions(target)}

C8_WeirdTargetIsNoop ==
    \A t \in Tasks :
        (Built(t) /\ cached_message_is_weird(CachedMessage(edit_message_id[t]))) =>
            /\ Reposts(t) = <<>>
            /\ Deletes(t) = <<>>
            /\ \A i \in 1..Len(Updates(t)) : Updates(t)[i].arg \notin {"done", "done_weird"}

\* C9: a replication issues at most one delete call, and exactly one once
\* its re-posts are over: delete_message with the id of the one re-posted
\* message, or delete_messages with the ids of the several re-posted ones.
C9_OneDelete ==
    \A t \in Tasks :
        /\ Len(Deletes(t)) <= 1
        /\ pc[t] = "modal_update" => Len(Deletes(t)) = 1
        /\ Deletes(t) # <<>> =>
            /\ Len(RepostIds(t)) = 1 =>
                /\ Deletes(t)[1].op = "delete_message"
                /\ Deletes(t)[1].id = RepostIds(t)[1]
            /\ Len(RepostIds(t)) > 1 =>
                /\ Deletes(t)[1].op = "delete_messages"
                /\ Deletes(t)[1].ids = RepostIds(t)

\* a replication of several messages has issued its batch delete
C9_Witness ==
    \E t \in Tasks :
        /\ Len(RepostIds(t)) > 1
        /\ Deletes(t) # <<>>
        /\ Deletes(t)[1].op = "delete_messages"

\* C10: a delete call is issued only once every message of the replay set
\* has been re-posted with success, it names only such messages, and after a
\* failed re-post no delete call is issued.
C10_PostThenDelete ==
    \A t \in Tasks :
        /\ Deletes(t) # <<>> =>
            /\ \A i \in 1..Len(Reposts(t)) : Reposts(t)[i].ok
            /\ RepostIds(t) = Ids(messages[t])
            /\ DeletedIds(t) \subseteq Range(RepostIds(t))
        /\ (\E i \in 1..Len(Reposts(t)) : ~Reposts(t)[i].ok) => Deletes(t) = <<>>

\* a replication is over whose second re-post failed: nothing was deleted
C10_Witness ==
    \E t \in Tasks :
        /\ pc[t] = "done"
        /\ Len(Reposts(t)) >= 2
        /\ ~Reposts(t)[Len(Reposts(t))].ok
        /\ Deletes(t) = <<>>

\* ------------------------------------------------------------------------
\* Properties of the eligibility checks
\* ------------------------------------------------------------------------
\* the conditions that make a message weird
ListedConditions ==
    { "activity", "application", "application_id", "bot", "components",
      "embeds", "interaction", "kind", "pinned", "reactions", "sticker_items",
      "webhook_id" }

\* C11: the check made on the target at command time and the filter applied
\* to cached messages at replication time both say "weird" exactly when the
\* message has at least one of the listed conditions, so they agree.
C11_SameVerdict ==
    verdict.asked =>
        /\ verdict.command = (probe.features \cap ListedConditions # {})
        /\ verdict.cached = (probe.features \cap ListedConditions # {})
        /\ verdict.command = verdict.cached

\* ------------------------------------------------------------------------
\* Properties of the error handling
\* ------------------------------------------------------------------------
\* the handler of session t has returned an error to handle()
HandlerFailed(t) == handler_err[t] # "none"

\* handle() and, if it failed, handle_error are over for session t
Over(t) == pc[t] = "done"

\* handle() has returned and its result, if an error, is with handle_error
Returned_handle(t) == pc[t] \in {"report", "report2", "done"}

\* the update_response calls of session t that carry `text`
UpdatesWith(t, text) ==
    {i \in 1..Len(Updates(t)) : Updates(t)[i].arg = text}

\* the calls of handle_error for session t
OwnerMessages(t) == CallsOf(t, {"create_message"})

\* C12: once handle() has returned for a handler error that is not a
\* user-facing one, the apology has been sent as the terminal update and
\* the error handed to handle_error is the handler's error itself, also
\* when the update call of the apology fails.
C12_ApologyAndReraise ==
    \A t \in Tasks :
        (HandlerFailed(t) /\ handler_err[t] \notin UserErrors /\ Returned_handle(t)) =>
            /\ UpdatesWith(t, "apology") # {}
            /\ err[t] = handler_err[t]
            /\ Over(t) => OwnerMessages(t) # <<>>

\* the errors meant for the user
UserFacingErrors ==
    { "NoCachedMessages", "MessageTooLong", "MessageWeird",
      "UserMissingPermissions", "SelfMissingPermissions" }

\* the handler of session t has returned a user-facing error and handle()
\* has returned
UserErrorHandled(t) ==
    handler_err[t] \in UserFacingErrors /\ Returned_handle(t)

\* C13, as claimed: for a user-facing error returned by a handler the
\* terminal update carries the text of that error, handle() returns Ok and
\* nothing goes to handle_error.
C13_UserErrorCaught ==
    \A t \in Tasks :
        UserErrorHandled(t) =>
            /\ UpdatesWith(t, handler_err[t]) # {}
            /\ Over(t)
            /\ OwnerMessages(t) = <<>>

\* C13, amended: for a user-facing error returned by a handler the one
\* terminal update carries the text of that error; when that call succeeds
\* handle() returns Ok and nothing goes to handle_error; when it fails,
\* what goes to handle_error is the failure of the update, never the
\* user-facing error.
C13_UserErrorShown ==
    \A t \in Tasks :
        UserErrorHandled(t) =>
            /\ Len(Updates(t)) = 1
            /\ Updates(t)[1].arg = handler_err[t]
            /\ Updates(t)[1].ok =>
                /\ Over(t)
                /\ OwnerMessages(t) = <<>>
                /\ err[t] = handler_err[t]
            /\ ~Updates(t)[1].ok => err[t] \notin UserFacingErrors

\* a command has ended on a user-facing error that was shown to the user and
\* kept from handle_error
C13_Witness ==
    \E t \in Tasks :
        /\ UserErrorHandled(t)
        /\ Over(t)
        /\ Updates(t)[1].ok
        /\ Updates(t)[1].arg = "NoCachedMessages"
        /\ OwnerMessages(t) = <<>>

\* ------------------------------------------------------------------------
\* Properties of the checks made before the replication
\* ------------------------------------------------------------------------
\* the calls of session t for the webhook, the re-posts and the deletes
ReplicationCalls(t) ==
    CallsOf(t, {"channel_webhooks", "create_webhook", "execute_webhook",
                "delete_message", "delete_messages"})

\* the edit handler of session t has looked its target up in the message cache
CacheRead(t) == edit_message_id[t] # None

\* C14: in a command or a form submission of a member without
\* MANAGE_MESSAGES the edit handler reads no cached message, acquires no
\* webhook, re-posts nothing and deletes nothing: it has returned
\* UserMissingPermissions before.
C14_MemberChecked ==
    \A t \in Tasks :
        (kind[t] \in {"command", "modal"} /\ ~member_can_manage[t]) =>
            /\ ~CacheRead(t)
            /\ ReplicationCalls(t) = <<>>

\* the calls of session t that change something remotely
MutationCalls(t) ==
    CallsOf(t, {"create_webhook", "execute_webhook",
                "delete_message", "delete_messages"})

\* modal_submit of session t has taken the submitted text
Submitted(t) == kind[t] = "modal" /\ input_len[t] # None

\* no remote call of session t has failed
AllCallsOk(t) == \A i \in 1..Len(calls[t]) : calls[t][i].ok

\* C15: a submitted text of 2000 characters is not refused for its length;
\* for a submitted text of 2001 characters no webhook is created, nothing is
\* re-posted and nothing is deleted, and, unless a remote call has failed
\* before, the handler returns MessageTooLong.
C15_SubmittedLength ==
    \A t \in Tasks :
        /\ (Submitted(t) /\ input_len[t] = MaxContentLen) =>
                err[t] \notin {"MessageTooLong", "validation"}
        /\ (Submitted(t) /\ input_len[t] = MaxContentLen + 1) =>
                /\ MutationCalls(t) = <<>>
                /\ (Over(t) /\ AllCallsOk(t)) => handler_err[t] = "MessageTooLong"

\* session t is a command whose target, once resolved, is not in the cache
UncachedCommand(t) ==
    /\ kind[t] = "command"
    /\ edit_message_id[t] # None
    /\ ~IsCached(edit_message_id[t])

\* the acknowledgments of session t that open the edit form
Forms(t) == {i \in 1..Len(Acks(t)) : Acks(t)[i].arg = "Modal"}

\* C16, as claimed: a command whose target is not cached opens no form,
\* lists and creates no webhook, re-posts and deletes nothing, and ends with
\* NoCachedMessages.
C16_UncachedEndsNoCached ==
    \A t \in Tasks :
        UncachedCommand(t) =>
            /\ Forms(t) = {}
            /\ ReplicationCalls(t) = <<>>
            /\ Over(t) => handler_err[t] = "NoCachedMessages"

\* what does hold of C16: a command whose target is not cached opens no
\* form, lists and creates no webhook, re-posts and deletes nothing;
\* _command returns NoCachedMessages, and command returns it to handle()
\* when the acknowledgment it sends on its error path succeeds, the failure
\* of that acknowledgment otherwise.
UncachedNoMutation ==
    \A t \in Tasks :
        UncachedCommand(t) =>
            /\ Forms(t) = {}
            /\ ReplicationCalls(t) = <<>>
            /\ pc[t] # "cmd_modal"
            /\ pc[t] = "cmd_defer" => err[t] = "NoCachedMessages"
            /\ Over(t) => HandlerFailed(t)
            /\ HandlerFailed(t) =>
                /\ Len(Acks(t)) = 2
                /\ handler_err[t] =
                        IF Acks(t)[2].ok THEN "NoCachedMessages" ELSE "create_response"

\* a command whose target is not cached is over: NoCachedMessages was shown
UncachedShown ==
    \E t \in Tasks :
        /\ UncachedCommand(t)
        /\ history = <<>>
        /\ Over(t)
        /\ handler_err[t] = "NoCachedMessages"
        /\ UpdatesWith(t, "NoCachedMessages") # {}

\* ------------------------------------------------------------------------
\* Properties of the use of a cached webhook
\* ------------------------------------------------------------------------
\* the last re-post of session t was refused because the webhook the cache
\* gave it is no longer on the platform
NotFoundOnUse(t) ==
    /\ kind[t] = "modal"
    /\ Reposts(t) # <<>>
    /\ ~Reposts(t)[Len(Reposts(t))].ok
    /\ ~Exists(chan[t], result[t])

\* C20: a replication that was refused because its cached webhook is gone
\* has, once it is over, invalidated the entry and created a new webhook:
\* the stale entry is no longer in the cache and the re-post was tried again.
C20_SelfHealing ==
    \A t \in Tasks :
        (NotFoundOnUse(t) /\ Over(t)) =>
            /\ webhooks_cache[chan[t]] # result[t]
            /\ Creations(t) # {}

\* ------------------------------------------------------------------------
\* Properties of the acknowledgment
\* ------------------------------------------------------------------------
\* the acknowledgment each kind of interaction is to get
ExpectedAck(k) ==
    CASE k = "command" -> "DeferredChannelMessageWithSource"
      [] k = "modal" -> "DeferredChannelMessageWithSource"
      [] k = "component" -> "DeferredUpdateMessage"

\* C21: a session that has reached its handler was acknowledged first, a
\* command and a form submission with the deferred new reply
\* (DeferredChannelMessageWithSource), a selection with the deferred update
\* in place (DeferredUpdateMessage).
C21_AckByKind ==
    \A t \in Tasks :
        (kind[t] \in InteractionKinds /\ dispatched[t]) =>
            /\ Acks(t) # <<>>
            /\ Acks(t)[1].arg = ExpectedAck(kind[t])

\* ------------------------------------------------------------------------
\* Properties of the re-posts
\* ------------------------------------------------------------------------
\* the re-posts of session t that carry the submitted text
EditedReposts(t) == {i \in 1..Len(Reposts(t)) : Reposts(t)[i].arg = "edited"}

WeirdIds == {history[i].id : i \in {j \in 1..Len(history) : cached_message_is_weird(history[j])}}

\* C23: a message the filter of modal_submit calls weird is never re-posted
\* and its id is never handed to delete_message or delete_messages.
C23_SkippedUntouched ==
    \A t \in Tasks :
        /\ WeirdIds \cap Range(RepostIds(t)) = {}
        /\ WeirdIds \cap DeletedIds(t) = {}
        /\ \A i \in 1..Len(messages[t]) : ~cached_message_is_weird(messages[t][i])

\* a replication whose window holds a weird message newer than the target
\* has re-posted and deleted the others and left that one alone
C23_Witness ==
    \E t \in Tasks :
        /\ Built(t)
        /\ WeirdPositions(edit_message_id[t]) # {}
        /\ Reposts(t) # <<>>
        /\ Deletes(t) # <<>>
        /\ DeletedIds(t) # {}
        /\ reply[t] = "done_weird"
        /\ pc[t] = "done"

\* the error of the task has reached handle_error (main.rs, handle_event)
Reported(t) == Over(t) /\ OwnerMessages(t) # <<>>

\* C24: an error that reaches handle_error leaves a trace in at least one of
\* the owner's channel, the error file and stderr, whatever the outcomes of
\* the two messages to the owner and of opening the file.
C24_ErrorRecorded ==
    \A t \in Tasks : Reported(t) => sinks[t] # {}

\* handle_event returns nothing: a task whose error went to handle_error
\* ends like any other, with no further call after the last owner message
C24_Swallowed ==
    \A t \in Tasks :
        Reported(t) => calls[t][Len(calls[t])].op = "create_message"

\* the ids of the messages a session has re-posted with success
Reposted(t) == {Reposts(t)[i].id : i \in {j \in 1..Len(Reposts(t)) : Reposts(t)[j].ok}}

\* two form submissions run side by side: each has read its messages from
\* the cache and neither has yet asked for the originals to be deleted
SideBySide(t1, t2) ==
    /\ t1 # t2
    /\ Built(t1) /\ Built(t2)
    /\ Deletes(t1) = <<>> /\ Deletes(t2) = <<>>

\* C25: of two form submissions of one channel running side by side, no
\* original message is re-posted by both.
C25_NoDuplicateRepost ==
    \A t1, t2 \in Tasks :
        SideBySide(t1, t2) => Reposted(t1) \cap Reposted(t2) = {}

====
